---- MODULE Spec2Model ----
(***************************************************************************)
(* State-machine model of src/app.py (autoNotes): the Dropbox webhook      *)
(* endpoint, the per-account pipeline threads it starts, the files those   *)
(* threads share (downloads/<name>, templates/mindmap.html,                *)
(* static/mindmap_<account>.html) and the retrieval endpoint.              *)
(*                                                                         *)
(* Text is a sequence of one-character strings; a file is the sequence of  *)
(* tokens it holds.  External collaborators (Dropbox, Whisper, GPT, pyvis, *)
(* hmac, json) are modelled by their interface: deterministic functions of *)
(* their input that may also raise.                                        *)
(***************************************************************************)
EXTENDS Integers, Sequences, FiniteSets, TLC

VARIABLES req, nreq, runs, entries, clock, downloads, template, static, view

vars == <<req, nreq, runs, entries, clock, downloads, template, static, view>>

\* ------------------------------------------------------------------ bounds
MaxRequests == 2   \* HTTP requests received (POST and GET)
MaxRuns     == 2   \* pipeline threads ever started
MaxUploads  == 2   \* files uploaded to the Dropbox App Folder

\* --------------------------------------------------------------- constants
\* os.environ["DROPBOX_APP_SECRET"]: some fixed key
DROPBOX_APP_SECRET == 5
\* summary_text[:40]
ExcerptLen == 40

Accounts == {"A", "B"}
\* An identifier with path-traversal characters: static/mindmap_A/../mindmap_B.html
TraversalId == "A/../mindmap_B"
RunIds   == 1..MaxRuns   \* thread k is runs[k]
Names    == {"x.mp3", "y.mp3"}

\* ------------------------------------------------------- request payloads
\* A JSON value is [t |-> tag, v |-> value]; "invalid" stands for raw bytes
\* that are not JSON at all.
JInvalid   == [t |-> "invalid", v |-> <<>>]
JStr       == [t |-> "str", v |-> <<>>]
JArr(s)    == [t |-> "arr", v |-> s]
JObj(f)    == [t |-> "obj", v |-> f]
JEmptyObj  == JObj(<<>>)
OneKey(k, val) == [x \in {k} |-> val]

\* The raw bodies the notifier (or anyone else) may POST; a body's index in
\* this table stands for its raw bytes.
BodyTable ==
  << JInvalid,                                                        \* 1 not JSON
     JArr(<<"A">>),                                                   \* 2 top level is a list
     JObj(OneKey("list_folder", JStr)),                               \* 3 list_folder is a string
     JEmptyObj,                                                       \* 4 {}
     JObj(OneKey("list_folder", JEmptyObj)),                          \* 5 {"list_folder":{}}
     JObj(OneKey("list_folder", JObj(OneKey("accounts", JArr(<<>>))))),          \* 6
     JObj(OneKey("list_folder", JObj(OneKey("accounts", JArr(<<"A">>))))),       \* 7
     JObj(OneKey("list_folder", JObj(OneKey("accounts", JArr(<<"A", "B">>))))),  \* 8
     JObj(OneKey("list_folder", JObj(OneKey("accounts", JArr(<<"A", "A">>))))),  \* 9
     JObj(OneKey("list_folder", JObj(OneKey("accounts", JArr(<<TraversalId>>))))) >> \* 10

Bodies == 1..Len(BodyTable)

\* ------------------------------------------------------ signature verifier
\* hmac.new(key, data, sha256).hexdigest(): a keyed hash of the raw bytes
\* (a small stand-in for SHA-256: a function of both key and data).
hmac_hexdigest(key, data) == (key * 31 + data * 17) % 61

NoHeader     == [t |-> "absent", h |-> 0]
NonAscii     == [t |-> "nonascii", h |-> 0]
HexHeader(n) == [t |-> "hex", h |-> n]

\* The X-Dropbox-Signature values sent with body b: none, the right digest,
\* the digest of other bytes, a non-ASCII value.
Headers(b) ==
  { NoHeader, NonAscii,
    HexHeader(hmac_hexdigest(DROPBOX_APP_SECRET, b)),
    HexHeader(hmac_hexdigest(DROPBOX_APP_SECRET, b + 1)) }

\* hmac.compare_digest(a, b) with b an ASCII str: TypeError when a is None
\* or a str with non-ASCII characters, else equality.
compare_digest(a, digest) ==
  IF a.t # "hex" THEN "TypeError"
  ELSE IF a.h = digest THEN "true" ELSE "false"

\* ------------------------------------------------------ notification parser
Raise == [ok |-> FALSE, val |-> JInvalid]
Ok(x) == [ok |-> TRUE, val |-> x]

\* json.loads(request.data)
json_loads(b) ==
  IF BodyTable[b].t = "invalid" THEN Raise ELSE Ok(BodyTable[b])

\* Mutant of DictGet: d[k], a KeyError when the key is missing
DictIndex(d, k, default) ==
  IF d.t # "obj" THEN Raise
  ELSE IF k \in DOMAIN d.v THEN Ok(d.v[k]) ELSE Raise

\* d.get(k, default): AttributeError unless d is a dict
DictGet(d, k, default) ==
  IF d.t # "obj" THEN Raise
  ELSE IF k \in DOMAIN d.v THEN Ok(d.v[k]) ELSE Ok(default)

\* Lines 71-74: the account list of body b, or the exception that ends the
\* request (every accounts value in BodyTable is a list).
ParseAccounts(b) ==
  LET data == json_loads(b) IN
  IF ~data.ok THEN Raise
  ELSE LET lf == DictGet(data.val, "list_folder", JEmptyObj) IN
       IF ~lf.ok THEN Raise
       ELSE LET acc == DictGet(lf.val, "accounts", JArr(<<>>)) IN
            IF ~acc.ok THEN Raise ELSE acc

\* ------------------------------------------------------------ collaborators
\* client.audio.transcriptions.create(...).text for audio content c
transcribe_audio(c) == [kind |-> "transcript", of |-> c]

CharOf(c) == IF c % 3 = 1 THEN "a" ELSE IF c % 3 = 2 THEN "b" ELSE "c"
SummaryLen(c) == IF c % 3 = 1 THEN 3 ELSE IF c % 3 = 2 THEN ExcerptLen + 1 ELSE ExcerptLen

\* response.choices[0].message.content: summaries of different lengths
gpt4_process(transcript) ==
  [i \in 1..SummaryLen(transcript.of) |-> CharOf(transcript.of)]

\* Mutant of Prefix: the slice is forgotten
WholeText(s, n) == s

\* s[:n]
Prefix(s, n) == SubSeq(s, 1, IF Len(s) < n THEN Len(s) ELSE n)

SummaryLabel == <<"S", "u", "m", "m", "a", "r", "y">>

EmptyNet == [nodes |-> <<>>, edges |-> <<>>]
add_node(net, id, label) ==
  IF \E i \in 1..Len(net.nodes) : net.nodes[i].id = id THEN net
  ELSE [net EXCEPT !.nodes = Append(@, [id |-> id, label |-> label])]
add_edge(net, from, to) ==
  [net EXCEPT !.edges = Append(@, [from |-> from, to |-> to])]

\* Lines 180-183: the graph built from a summary
BuildNet(summary_text) ==
  add_edge(
    add_node(add_node(EmptyNet, "Summary", SummaryLabel),
             "Details", Prefix(summary_text, ExcerptLen)),
    "Summary", "Details")

RECURSIVE NodesHtml(_)
NodesHtml(ns) ==
  IF ns = <<>> THEN <<>>
  ELSE <<"<node>", Head(ns).id>> \o Head(ns).label \o <<"</node>">> \o NodesHtml(Tail(ns))

RECURSIVE EdgesHtml(_)
EdgesHtml(es) ==
  IF es = <<>> THEN <<>>
  ELSE <<"<edge>", Head(es).from, Head(es).to, "</edge>">> \o EdgesHtml(Tail(es))

\* net.save_graph(...): the graph serialised to a self-contained document
Html(net) == <<"<html>">> \o NodesHtml(net.nodes) \o EdgesHtml(net.edges) \o <<"</html>">>

\* -------------------------------------------------------------------- files
NoFile == [exists |-> FALSE, data |-> <<>>]

\* f"static/mindmap_{account_id}.html" as the operating system resolves it:
\* the artifact file the path names once ".." components are cancelled.  (A
\* system that wants every component to exist fails the open instead, which
\* is the raising branch of OpenArtifact.)
ArtifactKey(account_id) == IF account_id = TraversalId THEN "B" ELSE account_id

\* open(path, "w"): the file exists and is empty
Truncate(file) == [exists |-> TRUE, data |-> <<>>]

\* f.write(d) on a handle opened at offset 0, then close: d replaces the
\* first Len(d) tokens of whatever the file holds by then
WriteAt0(file, d) ==
  [exists |-> TRUE, data |-> d \o SubSeq(file.data, Len(d) + 1, Len(file.data))]

\* max(result.entries, key=lambda entry: entry.server_modified)
Latest(es) == CHOOSE e \in es : \A o \in es : o.server_modified <= e.server_modified

\* The content now stored remotely under a name (0: none)
RemoteContent(name) ==
  IF \E e \in entries : e.name = name
  THEN (CHOOSE e \in entries : e.name = name).content
  ELSE 0

\* ------------------------------------------------------------------- state
IdleReq ==
  [pc |-> "idle", body |-> 0, sig |-> NoHeader, status |-> 0, verified |-> FALSE,
   parsed |-> FALSE, accounts |-> <<>>, i |-> 1, first |-> 0, started |-> 0,
   reply |-> <<>>, log |-> {}]

NewRun(account_id) ==
  [acct |-> account_id, pc |-> "started", path |-> "", fetched |-> 0,
   transcript |-> transcribe_audio(0), summary |-> <<>>, html |-> <<>>,
   listed |-> "none", raised |-> "", touched |-> FALSE, calls |-> {}, log |-> {},
   order |-> 0]

\* The last response to a GET request (none yet: status 0); at is the number
\* of the request it answers.
NoView == [at |-> 0, route |-> "", arg |-> <<>>, status |-> 0, ctype |-> "",
           nosniff |-> FALSE, body |-> <<>>]

\* The challenge values tried: the empty string and a two-character token
Challenges == {<<>>, <<"c", "h">>}

Init ==
  /\ req = IdleReq
  /\ nreq = 0
  /\ runs = <<>>
  /\ entries = {}
  /\ clock = 0
  /\ downloads = [n \in Names |-> 0]
  /\ template = <<>>
  /\ static = [a \in Accounts |-> NoFile]
  /\ view = NoView

\* ------------------------------------------------------------- environment
\* The account whose storage a file belongs to: A records x.mp3, B y.mp3.
Owner(name) == IF name = "x.mp3" THEN "A" ELSE "B"

\* A file is uploaded to (or replaced in) the App Folder, which is what
\* files_list_folder("") lists whatever the account of the run.
Upload(name) ==
  /\ clock < MaxUploads
  /\ clock' = clock + 1
  /\ entries' = {e \in entries : e.name # name}
                  \cup {[name |-> name, owner |-> Owner(name),
                          server_modified |-> clock + 1, content |-> clock + 1]}
  /\ UNCHANGED <<req, nreq, runs, downloads, template, static, view>>

\* The number of accounts a body would fan out to (0 when it does not parse)
FanOut(b) == IF ParseAccounts(b).ok THEN Len(ParseAccounts(b).val.v) ELSE 0

\* ---------------------------------------------------------- dropbox_webhook
\* The request object of a POST /webhook with raw body b and header s.
Received(b, s) ==
  [IdleReq EXCEPT !.pc = "verify", !.body = b, !.sig = s, !.first = Len(runs)]

\* Lines 63-69: compare the header with the digest of the raw body; abort(403)
\* on a mismatch, an unhandled TypeError (a 500) when they cannot be compared.
VerifySignature(r) ==
  LET c == compare_digest(r.sig, hmac_hexdigest(DROPBOX_APP_SECRET, r.body)) IN
  CASE c = "TypeError" ->
         [r EXCEPT !.pc = "responded", !.status = 500,
                   !.reply = <<"Internal Server Error">>,
                   !.log = @ \cup {"unhandled exception"}]
    [] c = "false" ->
         [r EXCEPT !.pc = "responded", !.status = 403,
                   !.reply = <<"Forbidden">>,
                   !.log = @ \cup {"invalid signature"}]
    [] OTHER ->
         [r EXCEPT !.pc = "parse", !.verified = TRUE]

\* Lines 71-74: parse the body and read the account list; an exception here
\* is unhandled (Flask logs it and answers 500).
ParseNotification(r) ==
  IF r.pc # "parse" THEN r
  ELSE LET p == ParseAccounts(r.body) IN
       IF p.ok
       THEN [r EXCEPT !.pc = "spawn", !.parsed = TRUE, !.accounts = p.val.v,
                      !.i = 1, !.log = @ \cup {"received notification"}]
       ELSE [r EXCEPT !.pc = "responded", !.parsed = TRUE, !.status = 500,
                      !.reply = <<"Internal Server Error">>,
                      !.log = @ \cup {"unhandled exception"}]

\* Lines 59-74: a POST /webhook request arrives and runs up to the loop (no
\* shared state is touched and nothing blocks before it).  One request is
\* handled at a time.
dropbox_webhook(b, s) ==
  /\ req.pc \in {"idle", "responded"}
  /\ nreq < MaxRequests
  /\ Len(runs) + FanOut(b) <= MaxRuns
  /\ nreq' = nreq + 1
  /\ req' = ParseNotification(VerifySignature(Received(b, s)))
  /\ UNCHANGED <<runs, entries, clock, downloads, template, static, view>>

\* Mutant of StartThread: an account that already has a thread gets no second one
StartThreadOncePerAccount ==
  /\ req.pc = "spawn"
  /\ req.i <= Len(req.accounts)
  /\ runs' = IF \E k \in 1..Len(runs) : runs[k].acct = req.accounts[req.i]
             THEN runs
             ELSE Append(runs, NewRun(req.accounts[req.i]))
  /\ req' = [req EXCEPT !.i = @ + 1,
                        !.started = @ + (IF runs' = runs THEN 0 ELSE 1)]
  /\ UNCHANGED <<nreq, entries, clock, downloads, template, static, view>>

\* Lines 76-78: one loop iteration, threading.Thread(...).start().
StartThread ==
  /\ req.pc = "spawn"
  /\ req.i <= Len(req.accounts)
  /\ runs' = Append(runs, NewRun(req.accounts[req.i]))
  /\ req' = [req EXCEPT !.i = @ + 1, !.started = @ + 1]
  /\ UNCHANGED <<nreq, entries, clock, downloads, template, static, view>>

\* Line 80: return ''
Respond ==
  /\ req.pc = "spawn"
  /\ req.i > Len(req.accounts)
  /\ req' = [req EXCEPT !.pc = "responded", !.status = 200, !.reply = <<>>]
  /\ UNCHANGED <<nreq, runs, entries, clock, downloads, template, static, view>>

\* -------------------------------------------------- process_dropbox_account
Terminal == {"done", "no_content", "failed"}

\* Mutant of Failed: the except clause retries the run from the fetch step
FailedRetries(r, why) ==
  [r EXCEPT !.pc = "fetching", !.log = @ \cup {<<"error processing account", r.acct>>}]

\* Lines 120-121: the except clause of process_dropbox_account
Failed(r, why) ==
  [r EXCEPT !.pc = "failed", !.raised = why, !.log = @ \cup {<<"error processing account", r.acct>>}]

\* Lines 149-154 then 90-92: download_latest_audio_file swallows the
\* exception and returns None, which the caller takes for "no audio files".
Swallowed(r, why) ==
  [r EXCEPT !.pc = "no_content", !.raised = why,
            !.log = @ \cup {<<"download error">>, <<"no audio files found", r.acct>>}]

\* Line 85
Begin(k) ==
  /\ k \in DOMAIN runs
  /\ runs[k].pc = "started"
  /\ runs' = [runs EXCEPT ![k].pc = "fetching"]
  /\ UNCHANGED <<req, nreq, entries, clock, downloads, template, static, view>>

\* Mutant of ListFolder: the checks for an empty listing (lines 134-136 and
\* 90-92) are missing, so the run goes on to the next steps
ListFolderNoEmptyCheck(k) ==
  /\ k \in DOMAIN runs
  /\ runs[k].pc = "fetching"
  /\ runs' = [runs EXCEPT ![k] =
                 IF entries = {}
                 THEN [@ EXCEPT !.pc = "transcribing", !.listed = "empty",
                                !.calls = @ \cup {"list"}, !.path = "x.mp3"]
                 ELSE [@ EXCEPT !.pc = "downloading", !.listed = "some",
                                !.calls = @ \cup {"list"},
                                !.path = Latest(entries).name]]
  /\ UNCHANGED <<req, nreq, entries, clock, downloads, template, static, view>>

\* Lines 126-142: list the App Folder and pick the latest entry.
ListFolder(k) ==
  /\ k \in DOMAIN runs
  /\ runs[k].pc = "fetching"
  /\ \E raise \in BOOLEAN :
       runs' = [runs EXCEPT ![k] =
                  IF raise THEN Swallowed([@ EXCEPT !.calls = @ \cup {"list"}], "fetch")
                  ELSE IF entries = {}
                  THEN [@ EXCEPT !.pc = "no_content", !.listed = "empty",
                                 !.calls = @ \cup {"list"},
                                 !.log = @ \cup {<<"no audio files found", runs[k].acct>>}]
                  ELSE [@ EXCEPT !.pc = "downloading", !.listed = "some",
                                 !.calls = @ \cup {"list"},
                                 !.path = Latest(entries).name]]
  /\ UNCHANGED <<req, nreq, entries, clock, downloads, template, static, view>>

\* Lines 144-147: download the chosen entry to downloads/<name>.
Download(k) ==
  /\ k \in DOMAIN runs
  /\ runs[k].pc = "downloading"
  /\ \E raise \in BOOLEAN :
       IF raise
       THEN /\ runs' = [runs EXCEPT ![k] = Swallowed([@ EXCEPT !.calls = @ \cup {"download"}], "fetch")]
            /\ UNCHANGED downloads
       ELSE /\ downloads' = [downloads EXCEPT ![runs[k].path] = RemoteContent(runs[k].path)]
            /\ runs' = [runs EXCEPT ![k].pc = "transcribing",
                                    ![k].calls = @ \cup {"download"},
                                    ![k].fetched = RemoteContent(runs[k].path)]
  /\ UNCHANGED <<req, nreq, entries, clock, template, static, view>>

\* Mutant of Transcribe: the exception is not caught in the thread and takes
\* every unfinished run down with it
TranscribeUncaught(k) ==
  /\ k \in DOMAIN runs
  /\ runs[k].pc = "transcribing"
  /\ \E raise \in BOOLEAN :
       runs' = IF raise
               THEN [j \in DOMAIN runs |->
                       IF j = k \/ runs[j].pc \notin {"done", "no_content", "failed"}
                       THEN [runs[j] EXCEPT !.pc = "failed", !.raised = "transcribe"]
                       ELSE runs[j]]
               ELSE [runs EXCEPT ![k].pc = "summarizing",
                                 ![k].calls = @ \cup {"transcribe"},
                                 ![k].transcript = transcribe_audio(downloads[runs[k].path])]
  /\ UNCHANGED <<req, nreq, entries, clock, downloads, template, static, view>>

\* Lines 96-99: transcribe whatever downloads/<name> holds now.
Transcribe(k) ==
  /\ k \in DOMAIN runs
  /\ runs[k].pc = "transcribing"
  /\ \E raise \in BOOLEAN :
       runs' = [runs EXCEPT ![k] =
                  IF raise THEN Failed([@ EXCEPT !.calls = @ \cup {"transcribe"}], "transcribe")
                  ELSE [@ EXCEPT !.pc = "summarizing", !.calls = @ \cup {"transcribe"},
                                 !.transcript = transcribe_audio(downloads[runs[k].path])]]
  /\ UNCHANGED <<req, nreq, entries, clock, downloads, template, static, view>>

\* Mutant of Summarize: the summary is handed to the publish step unrendered
SummarizeSkipsRender(k) ==
  /\ k \in DOMAIN runs
  /\ runs[k].pc = "summarizing"
  /\ runs' = [runs EXCEPT ![k].pc = "publishing", ![k].calls = @ \cup {"summarize"},
                          ![k].summary = gpt4_process(runs[k].transcript),
                          ![k].html = gpt4_process(runs[k].transcript)]
  /\ UNCHANGED <<req, nreq, entries, clock, downloads, template, static, view>>

\* Lines 101-104
Summarize(k) ==
  /\ k \in DOMAIN runs
  /\ runs[k].pc = "summarizing"
  /\ \E raise \in BOOLEAN :
       runs' = [runs EXCEPT ![k] =
                  IF raise THEN Failed([@ EXCEPT !.calls = @ \cup {"summarize"}], "summarize")
                  ELSE [@ EXCEPT !.pc = "rendering", !.calls = @ \cup {"summarize"},
                                 !.summary = gpt4_process(runs[k].transcript)]]
  /\ UNCHANGED <<req, nreq, entries, clock, downloads, template, static, view>>

\* Lines 180-184: build the graph and save it to templates/mindmap.html.
SaveGraph(k) ==
  /\ k \in DOMAIN runs
  /\ runs[k].pc = "rendering"
  /\ \E raise \in BOOLEAN :
       IF raise
       THEN /\ runs' = [runs EXCEPT ![k] = Failed([@ EXCEPT !.calls = @ \cup {"render"}], "render")]
            /\ UNCHANGED template
       ELSE /\ template' = Html(BuildNet(runs[k].summary))
            /\ runs' = [runs EXCEPT ![k].pc = "reading", ![k].calls = @ \cup {"render"}]
  /\ UNCHANGED <<req, nreq, entries, clock, downloads, static, view>>

\* Lines 185-186: read templates/mindmap.html back.
ReadTemplate(k) ==
  /\ k \in DOMAIN runs
  /\ runs[k].pc = "reading"
  /\ runs' = [runs EXCEPT ![k].pc = "publishing", ![k].html = template]
  /\ UNCHANGED <<req, nreq, entries, clock, downloads, template, static, view>>

\* Lines 111-112: open(mindmap_path, "w")
OpenArtifact(k) ==
  /\ k \in DOMAIN runs
  /\ runs[k].pc = "publishing"
  /\ \E raise \in BOOLEAN :
       IF raise
       THEN /\ runs' = [runs EXCEPT ![k] = Failed([@ EXCEPT !.calls = @ \cup {"open"}], "publish")]
            /\ UNCHANGED static
       ELSE /\ static' = [static EXCEPT ![ArtifactKey(runs[k].acct)] = Truncate(@)]
            /\ runs' = [runs EXCEPT ![k].pc = "writing",
                                    ![k].calls = @ \cup {"open"},
                                    ![k].touched = @ \/ static' # static]
  /\ UNCHANGED <<req, nreq, entries, clock, downloads, template, view>>

\* Line 113 and the end of the with block: f.write(mind_map_html), close.
\* order numbers the completed publishes in the order they completed.
WriteArtifact(k) ==
  /\ k \in DOMAIN runs
  /\ runs[k].pc = "writing"
  /\ \E raise \in BOOLEAN :
       IF raise
       THEN /\ runs' = [runs EXCEPT ![k] = Failed([@ EXCEPT !.calls = @ \cup {"write"}], "publish")]
            /\ UNCHANGED static
       ELSE /\ static' = [static EXCEPT ![ArtifactKey(runs[k].acct)] = WriteAt0(@, runs[k].html)]
            /\ runs' = [runs EXCEPT ![k].pc = "done",
                                    ![k].calls = @ \cup {"write"},
                                    ![k].touched = @ \/ static' # static,
                                    ![k].order = 1 + Cardinality({j \in DOMAIN runs : runs[j].pc = "done"}),
                                    ![k].log = @ \cup {<<"mind map created", runs[k].acct>>}]
  /\ UNCHANGED <<req, nreq, entries, clock, downloads, template, view>>

\* ------------------------------------------------------------- view_mindmap
\* Lines 195-202: GET /mindmap/<account_id>
view_mindmap(account_id) ==
  /\ nreq < MaxRequests
  /\ nreq' = nreq + 1
  /\ view' = IF ~static[account_id].exists
             THEN [at |-> nreq + 1, route |-> "mindmap", arg |-> <<account_id>>, status |-> 404,
                   ctype |-> "text/html", nosniff |-> FALSE,
                   body |-> <<"No mind map found for account", account_id>>]
             ELSE [at |-> nreq + 1, route |-> "mindmap", arg |-> <<account_id>>, status |-> 200,
                   ctype |-> "text/html", nosniff |-> FALSE,
                   body |-> static[account_id].data]
  /\ UNCHANGED <<req, runs, entries, clock, downloads, template, static>>

\* ------------------------------------------------------------ verify_dropbox
\* Mutant of verify_dropbox: the two headers are not set (Flask's default type)
verify_dropbox_default_headers(challenge) ==
  /\ nreq < MaxRequests
  /\ nreq' = nreq + 1
  /\ view' = [at |-> nreq + 1, route |-> "webhook", arg |-> challenge, status |-> 200,
              ctype |-> "text/html", nosniff |-> FALSE, body |-> challenge]
  /\ UNCHANGED <<req, runs, entries, clock, downloads, template, static>>

\* Lines 49-57: GET /webhook?challenge=<challenge>
verify_dropbox(challenge) ==
  /\ nreq < MaxRequests
  /\ nreq' = nreq + 1
  /\ view' = [at |-> nreq + 1, route |-> "webhook", arg |-> challenge, status |-> 200,
              ctype |-> "text/plain", nosniff |-> TRUE, body |-> challenge]
  /\ UNCHANGED <<req, runs, entries, clock, downloads, template, static>>

\* ----------------------------------------------------------- specification
Next ==
  \/ \E n \in Names : Upload(n)
  \/ \E b \in Bodies : \E s \in Headers(b) : dropbox_webhook(b, s)
  \/ StartThread
  \/ Respond
  \/ \E k \in RunIds : Begin(k)
  \/ \E k \in RunIds : ListFolder(k)
  \/ \E k \in RunIds : Download(k)
  \/ \E k \in RunIds : Transcribe(k)
  \/ \E k \in RunIds : Summarize(k)
  \/ \E k \in RunIds : SaveGraph(k)
  \/ \E k \in RunIds : ReadTemplate(k)
  \/ \E k \in RunIds : OpenArtifact(k)
  \/ \E k \in RunIds : WriteArtifact(k)
  \/ \E a \in Accounts : view_mindmap(a)
  \/ \E c \in Challenges : verify_dropbox(c)

Spec == Init /\ [][Next]_vars

\* The next step of the thread of run k (line 78: each run is a thread of its
\* own, and every step is a call that returns or raises).
RunStep(k) ==
  \/ Begin(k) \/ ListFolder(k) \/ Download(k) \/ Transcribe(k) \/ Summarize(k)
  \/ SaveGraph(k) \/ ReadTemplate(k) \/ OpenArtifact(k) \/ WriteArtifact(k)

\* The steps that bear on runs: uploads, notifications signed by Dropbox, the
\* handler's loop and response, and the threads.  The GET endpoints and the
\* requests refused at the signature start and change no run.
RunsNext ==
  \/ \E n \in Names : Upload(n)
  \/ \E b \in Bodies : dropbox_webhook(b, HexHeader(hmac_hexdigest(DROPBOX_APP_SECRET, b)))
  \/ StartThread
  \/ Respond
  \/ \E k \in RunIds : RunStep(k)

\* The program with every started thread scheduled again and again.
FairSpec == Init /\ [][RunsNext]_vars /\ \A k \in RunIds : WF_vars(RunStep(k))

\* ------------------------------------------------------------------ claims
\* The header of the request in hand is the hex digest of its raw body under
\* the shared secret.
SigValid == req.sig.t = "hex" /\ req.sig.h = hmac_hexdigest(DROPBOX_APP_SECRET, req.body)

Responded == req.pc = "responded"

\* The body is not well-formed structured data: not JSON, a top level that is
\* no object, or a list_folder value that is no object.
Malformed(b) ==
  \/ BodyTable[b].t # "obj"
  \/ /\ "list_folder" \in DOMAIN BodyTable[b].v
     /\ BodyTable[b].v["list_folder"].t # "obj"

\* The body is well-formed and lists no account: no list_folder key, no
\* accounts key, or an empty accounts array.
AbsentOrEmpty(b) ==
  /\ ~Malformed(b)
  /\ \/ "list_folder" \notin DOMAIN BodyTable[b].v
     \/ "accounts" \notin DOMAIN BodyTable[b].v["list_folder"].v
     \/ BodyTable[b].v["list_folder"].v["accounts"].v = <<>>

\* The account identifiers a well-formed body lists
Listed(b) ==
  IF Malformed(b) \/ AbsentOrEmpty(b) THEN <<>>
  ELSE BodyTable[b].v["list_folder"].v["accounts"].v

\* The threads started by the request in hand
OwnRuns == (req.first + 1)..(req.first + req.started)

\* C1: a POST /webhook is parsed, and runs are started, only when the header
\* equals the digest of the raw body, and then it is parsed; otherwise the
\* answer is 403, nothing is parsed and no run starts; verification comes
\* before parsing.  (Violated: a missing or non-ASCII header is answered 500.)
C1_SignatureGate ==
  /\ req.parsed => req.verified
  /\ req.started > 0 => SigValid
  /\ Responded =>
       /\ req.parsed <=> SigValid
       /\ ~SigValid => req.status = 403 /\ ~req.parsed /\ req.started = 0

\* C2: a POST /webhook without X-Dropbox-Signature is answered 403, not a
\* server error, and nothing is parsed or started.  (Violated: 500.)
C2_MissingHeaderIs403 ==
  Responded /\ req.sig = NoHeader =>
    req.status = 403 /\ ~req.parsed /\ req.started = 0

\* C3: a correctly signed POST /webhook whose body is malformed is logged and
\* answered 200 with an empty body; it starts no run and is never answered
\* 403 or 5xx.  (Violated: the exception is unhandled, the answer is 500.)
C3_MalformedIs200 ==
  Responded /\ SigValid /\ Malformed(req.body) =>
    /\ req.status = 200
    /\ req.reply = <<>>
    /\ req.started = 0
    /\ req.log # {}

\* C4: a correctly signed notification listing N accounts is answered 200 with
\* an empty body after exactly N threads were started, one per listed
\* identifier in order, whatever state those threads are in.
C4_FanOut ==
  Responded /\ SigValid /\ ~Malformed(req.body) =>
    /\ req.status = 200
    /\ req.reply = <<>>
    /\ req.started = Len(Listed(req.body))
    /\ Len(runs) = req.first + req.started
    /\ \A j \in 1..Len(Listed(req.body)) :
         runs[req.first + j].acct = Listed(req.body)[j]

\* C4 witness: the 200 has been given for two accounts and neither of the two
\* threads has reached a terminal outcome.
C4_Witness ==
  /\ Responded /\ SigValid /\ req.status = 200
  /\ Len(Listed(req.body)) = 2
  /\ req.started = 2
  /\ \A k \in OwnRuns : runs[k].pc \notin Terminal

\* C5: a correctly signed notification with an absent or empty account list
\* is accepted: the parser yields the empty sequence, the answer is 200 with
\* an empty body and no thread is started.
C5_EmptyListAccepted ==
  SigValid /\ AbsentOrEmpty(req.body) =>
    /\ req.started = 0
    /\ Len(runs) = req.first
    /\ req.pc \in {"spawn", "responded"}
    /\ req.parsed /\ req.accounts = <<>>
    /\ Responded => req.status = 200 /\ req.reply = <<>>

\* C5 witness: the body {} was correctly signed and answered 200.
C5_Witness ==
  /\ Responded /\ SigValid /\ req.status = 200
  /\ BodyTable[req.body].t = "obj" /\ DOMAIN BodyTable[req.body].v = {}
  /\ req.started = 0

\* C6: a run in which a collaborator step failed has not changed the artifact
\* of its account.  (Violated: a write that fails after open(path, "w") leaves
\* the file truncated.)
C6_FailedRunLeavesArtifact ==
  \A k \in 1..Len(runs) : runs[k].raised # "" => ~runs[k].touched

\* The complete documents a run can produce
CompleteDocs ==
  { Html(BuildNet(gpt4_process(transcribe_audio(c)))) : c \in 1..MaxUploads }

\* C7: a GET /mindmap/<account> answered 200 carries a complete document,
\* never an empty or partial one.  (Violated: a read between open(path, "w")
\* and the write sees the empty file.)
C7_ReaderSeesWholeDocument ==
  view.route = "mindmap" /\ view.status = 200 => view.body \in CompleteDocs

\* C8: the document a run publishes is the rendering of that run's own
\* summary, itself made from the content that run fetched.  (Violated: the
\* runs share templates/mindmap.html and downloads/<name>.)
C8_OwnRendering ==
  \A k \in 1..Len(runs) :
    runs[k].pc \in {"publishing", "writing", "done"} =>
      /\ runs[k].html = Html(BuildNet(runs[k].summary))
      /\ runs[k].summary = gpt4_process(transcribe_audio(runs[k].fetched))

\* C9: an exception at any step, fetch included, ends the run as failed,
\* logged with the account identifier; no-content arises only from an empty
\* storage scope.  (Violated: a fetch error ends the run as no-content.)
C9_ExceptionMeansFailed ==
  \A k \in 1..Len(runs) :
    /\ runs[k].raised # "" =>
         /\ runs[k].pc = "failed"
         /\ <<"error processing account", runs[k].acct>> \in runs[k].log
    /\ runs[k].pc = "no_content" => runs[k].listed = "empty"

RaisedNow(k) == k \in DOMAIN runs /\ runs[k].raised = "" /\ runs'[k].raised # ""

\* C11: an exception stays inside the run that raised it: the step in which
\* run k fails ends k in a terminal outcome and changes no other run (its
\* outcome included), no artifact and nothing of the response of the request.
C11_FailureIsContained ==
  [][\A k \in RunIds :
       RaisedNow(k) =>
         /\ runs'[k].pc \in Terminal
         /\ Len(runs') = Len(runs)
         /\ \A j \in DOMAIN runs : j # k => runs'[j] = runs[j]
         /\ static' = static
         /\ req' = req]_vars

\* C11 witness: a run for one account has failed, the run for another
\* account has published, and the notification was answered 200.
C11_Witness ==
  \E k, j \in DOMAIN runs :
    /\ runs[k].pc = "failed" /\ runs[k].raised # ""
    /\ runs[j].acct # runs[k].acct /\ runs[j].pc = "done"
    /\ static[ArtifactKey(runs[j].acct)] = [exists |-> TRUE, data |-> runs[j].html]
    /\ req.pc = "responded" /\ req.status = 200

\* ------------------------------------------------------------------ C12
\* The runs that have completed a publish for the account a.
Published(a) == {k \in DOMAIN runs : runs[k].acct = a /\ runs[k].pc = "done"}

\* C12: GET /mindmap/<a> answers 404 exactly when no run has completed a
\* publish for a, and otherwise 200 with exactly the document of the most
\* recent completed publish.  (Violated: a GET between a run's open and its
\* write answers 200 with an empty document although nothing was published.)
C12_ServesLastPublished ==
  [][(view' # view /\ view'.route = "mindmap") =>
       LET a == view'.arg[1] IN
         /\ view'.status \in {200, 404}
         /\ view'.status = 404 <=> Published(a) = {}
         /\ view'.status = 200 =>
              \E k \in Published(a) :
                /\ \A j \in Published(a) : runs[j].order <= runs[k].order
                /\ view'.body = runs[k].html]_vars

\* ------------------------------------------------------------------ C13
\* The storage scope of an account: the entries that belong to it.
Scope(a) == {e \in entries : e.owner = a}

\* C13: the fetch step selects the entry with the greatest modification
\* time among the entries of the run's own account, and ends as no-content
\* when that scope is empty.  (Violated: the listing is the same folder for
\* every account, so a run for A selects an entry of B.)
C13_FetchesOwnLatest ==
  [][\A k \in RunIds :
       (k \in DOMAIN runs /\ runs[k].pc = "fetching" /\ runs'[k].pc # "fetching"
          /\ runs'[k].raised = "") =>
         IF Scope(runs[k].acct) = {}
         THEN runs'[k].pc = "no_content"
         ELSE /\ runs'[k].pc = "downloading"
              /\ runs'[k].path = Latest(Scope(runs[k].acct)).name]_vars

\* ------------------------------------------------------------------ C14
\* C14: a run whose account identifier contains "/" or ".." never hands a
\* path to open() and never changes a file.  (Violated: the identifier goes into the path unchecked and
\* the run opens static/mindmap_A/../mindmap_B.html.)
C14_TraversalNeverAddressesStorage ==
  \A k \in DOMAIN runs :
    runs[k].acct = TraversalId =>
      /\ "open" \notin runs[k].calls
      /\ ~runs[k].touched

\* ------------------------------------------------------------------ C15
\* The first n characters of s, the whole of s when it is shorter.
Excerpt(s, n) == [i \in 1..(IF Len(s) <= n THEN Len(s) ELSE n) |-> s[i]]

\* The document of a graph with the root "Summary", one child labelled with
\* the excerpt of s, and the single edge from the root to the child.
TwoNodeDocument(s) ==
  <<"<html>", "<node>", "Summary", "S", "u", "m", "m", "a", "r", "y", "</node>",
    "<node>", "Details">> \o Excerpt(s, 40)
  \o <<"</node>", "<edge>", "Summary", "Details", "</edge>", "</html>">>

\* C15: the render step writes a graph of exactly two nodes and one edge:
\* the root labelled "Summary", one child labelled with the first 40
\* characters of the summary (all of it when shorter), and the edge from
\* the root to the child.
C15_RenderedGraph ==
  [][\A k \in RunIds :
       (k \in DOMAIN runs /\ runs[k].pc = "rendering" /\ runs'[k].pc = "reading") =>
         /\ template' = TwoNodeDocument(runs[k].summary)
         /\ Len(BuildNet(runs[k].summary).nodes) = 2
         /\ Len(BuildNet(runs[k].summary).edges) = 1]_vars

\* C15 witness: a summary longer than 40 characters was rendered and its
\* document, with the label cut at 40, is what the template file holds.
C15_Witness ==
  \E k \in DOMAIN runs :
    /\ runs[k].pc = "reading"
    /\ Len(runs[k].summary) > 40
    /\ template = TwoNodeDocument(runs[k].summary)

\* ------------------------------------------------------------------ C16
\* C16: GET /webhook with a challenge answers 200 with the challenge as the
\* body (the empty one included), Content-Type text/plain and
\* X-Content-Type-Options nosniff, and starts no run, changes no file and
\* leaves the handling of the notification as it was.
C16_Handshake ==
  [][(view' # view /\ view'.route = "webhook") =>
       /\ view'.status = 200
       /\ view'.body = view'.arg
       /\ view'.ctype = "text/plain"
       /\ view'.nosniff
       /\ runs' = runs
       /\ static' = static /\ downloads' = downloads /\ template' = template
       /\ req' = req]_vars

\* C16 witness: the handshake with an empty challenge was answered 200 with
\* an empty body while a run was in progress.
C16_Witness ==
  /\ view.route = "webhook" /\ view.arg = <<>> /\ view.status = 200 /\ view.body = <<>>
  /\ \E k \in DOMAIN runs : runs[k].pc \notin Terminal

\* ------------------------------------------------------------------ C17
\* The state of a run as the specification names it: downloading is part of
\* fetching, reading the template back part of rendering, the write part of
\* publishing.
Stage(pc) ==
  CASE pc = "downloading" -> "fetching"
    [] pc = "reading"     -> "rendering"
    [] pc = "writing"     -> "publishing"
    [] OTHER              -> pc

StageOrder ==
  <<"started", "fetching", "transcribing", "summarizing", "rendering", "publishing", "done">>

\* C17: a run starts in started and moves only to the next state of the
\* sequence started, fetching, transcribing, summarizing, rendering,
\* publishing, done; no_content is entered only from fetching, failed only
\* from a non-terminal state, and a terminal state is never left.
C17_StateMachine ==
  [][/\ \A k \in DOMAIN runs' : k \notin DOMAIN runs => runs'[k].pc = "started"
     /\ \A k \in DOMAIN runs :
          LET s == Stage(runs[k].pc)
              t == Stage(runs'[k].pc)
          IN  \/ runs'[k].pc = runs[k].pc
              \/ s = t /\ s \notin Terminal /\ runs[k].pc = s
              \/ \E i \in 1..(Len(StageOrder) - 1) : StageOrder[i] = s /\ StageOrder[i + 1] = t
              \/ s = "fetching" /\ t = "no_content"
              \/ s \notin Terminal /\ t = "failed"]_vars

\* C17 witness: a run went through every state to done, another left
\* fetching for no_content or failed on the way.
C17_Witness ==
  \E k, j \in DOMAIN runs :
    /\ runs[k].pc = "done"
    /\ runs[k].calls = {"list", "download", "transcribe", "summarize", "render", "open", "write"}
    /\ runs[j].pc \in {"no_content", "failed"}

\* ------------------------------------------------------------------ C18
\* C18: when two runs for the same account have both completed their publish
\* step, the artifact of the account is, in full, the document of the run
\* that completed it last.  (Violated: both runs write in place from offset
\* 0, so a shorter document written last keeps the tail of the longer one.)
C18_LastPublishWins ==
  \A j, k \in DOMAIN runs :
    (/\ j # k
     /\ runs[j].acct = runs[k].acct /\ runs[k].acct \in Accounts
     /\ runs[j].pc = "done" /\ runs[k].pc = "done"
     /\ runs[j].order < runs[k].order) =>
      static[runs[k].acct] = [exists |-> TRUE, data |-> runs[k].html]

\* ------------------------------------------------------------------ C19
\* C19: an artifact changes only in the publish step of a run for the
\* account that keys it; no other step, and neither GET endpoint, changes
\* it.  (Violated: the run for an identifier with ".." changes the artifact
\* of B.)
C19_OnlyOwnArtifact ==
  [][\A a \in Accounts :
       static'[a] # static[a] =>
         \E k \in DOMAIN runs :
           /\ runs[k].acct = a
           /\ runs[k].pc \in {"publishing", "writing"}
           /\ runs'[k].pc # runs[k].pc]_vars

\* ------------------------------------------------------------------ C20
\* The state of run k ("none" while it has not been started).
PcOf(k) == IF k \in DOMAIN runs THEN runs[k].pc ELSE "none"

\* C20: with every thread scheduled fairly, every started run eventually
\* reaches a terminal outcome, and the outcome it has reached is the one it
\* keeps (no retry starts it again).
C20_EveryRunTerminates ==
  /\ \A k \in RunIds : (PcOf(k) # "none") ~> (PcOf(k) \in Terminal)
  /\ [][\A k \in RunIds : PcOf(k) \in Terminal => PcOf(k)' = PcOf(k)]_vars

\* C20 witness: two runs have ended with different outcomes.
C20_Witness ==
  \E j, k \in DOMAIN runs :
    /\ runs[j].pc \in Terminal /\ runs[k].pc \in Terminal
    /\ runs[j].pc # runs[k].pc

====
